---- MODULE Spec2Model ----
(***************************************************************************)
(* A model of the string-interning table of package intern (intern.go,     *)
(* the chunked-arena version, lines 124-253) together with the map+slice   *)
(* reference implementation `compare` of compare_test.go.                  *)
(*                                                                         *)
(* Slices are modelled as functions over 0..n-1 (entries) or as sequences  *)
(* (the chunk list, chunk j of the code is strings[j+1] here).  A chunk    *)
(* new([1024]string) is zero-initialised: the model stores the offsets     *)
(* that were written and reads every other offset of 0..1023 as "".        *)
(* The load factor is a rational <<num, den>>; the capacity is a power of  *)
(* two, so loadFactor*float64(cap) is exact in float64 and int(...) is the *)
(* floor of num*cap/den.  The murmur3 hasher is an arbitrary but fixed     *)
(* function from strings to 32-bit values, chosen at construction.         *)
(***************************************************************************)
EXTENDS Integers, Sequences, FiniteSets, TLC

VARIABLES entries, strings, count, threshold, clashes, loadFactor, hash,
          fault, op, newCap, c_m, c_s, c_ret, calls, rets, order, grown, conc

vars == <<entries, strings, count, threshold, clashes, loadFactor, hash,
          fault, op, newCap, c_m, c_s, c_ret, calls, rets, order, grown, conc>>

(* ----------------------------- bounds ---------------------------------- *)

\* number of distinct strings the callers of Spec may pass
NumStrings == 3
\* number of StringToIndex calls in one behaviour of Spec
MaxCalls == 4
\* number of distinct strings the callers of SpecFill may pass
FillStrings == 18
\* number of StringToIndex calls in one behaviour of SpecFill
MaxFillCalls == 20
\* largest capacity requested from New in SpecCap
MaxCapReq == 130
\* number of distinct strings the caller of SpecArena passes
ArenaStrings == 1026
\* number of StringToIndex calls the goroutines of SpecConc start
MaxConcCalls == 3

(* --------------------------- program constants -------------------------- *)

ChunkSize == 1024
MinCap == 16
WordBits == 64

(* ------------------------------ inputs ---------------------------------- *)

\* the empty string and strconv.Itoa(0..24), the keys of TestSame
StrTab == <<"", "0", "1", "2", "3", "4", "5", "6", "7", "8", "9", "10", "11",
            "12", "13", "14", "15", "16", "17", "18", "19", "20", "21", "22",
            "23", "24">>

Strings == {StrTab[i] : i \in 1..NumStrings}

FillSeq == [i \in 1..FillStrings |-> StrTab[i]]

\* 32-bit hash values: equal hashes, equal home slots with different hashes
\* (15, 31 and 2^31-1 at capacity 16, 31 and 2^31-1 at capacity 32, the last
\* slot at every capacity for 2^31-1), and a neighbour of the wrap-around (0)
HashVals == {0, 15, 31, 2147483647}

\* the hash functions of Spec.  The callers pass the strings in any order, so
\* up to a renaming of the strings the hash values are nondecreasing along
\* StrTab
HashFns ==
  {h \in [Strings -> HashVals] :
     \A i, j \in 1..NumStrings : i <= j => h[StrTab[i]] <= h[StrTab[j]]}

\* load factors <<num, den>> of Spec: 1/20 has threshold 0 at capacity 16 and
\* grows at three of the first four calls, 3/4 fills 16 slots without growing
LoadFactors == {<<1, 20>>, <<3, 4>>}

\* load factors of SpecFill: 15/16 leaves one empty slot of 16 before growing,
\* 1/20 starts with threshold 0
FillLoadFactors == {<<15, 16>>, <<7, 10>>, <<1, 2>>, <<1, 20>>}

\* hash functions of SpecFill: one hash for all strings, one home slot at
\* capacity 16 with different hashes, and a different home slot per string
FillHashKinds == {"same", "home", "spread"}

StrPos(s) == CHOOSE i \in 1..Len(StrTab) : StrTab[i] = s

FillHash(kind) ==
  [s \in {FillSeq[i] : i \in 1..FillStrings} |->
     CASE kind = "same" -> 15
       [] kind = "home" -> 16 * (StrPos(s) - 1) + 15
       [] OTHER -> StrPos(s) - 1]

\* capacities requested from New in Spec and SpecFill
CapRequests == {5}

\* strconv.Itoa
Itoa(i) == ToString(i)

\* the strings of SpecArena, "0", "1", ... in the order of TestSame
ArenaSeq == [i \in 1..ArenaStrings |-> Itoa(i - 1)]

\* the hash function of SpecArena: the string Itoa(i) has hash i
ArenaHash ==
  [s \in {ArenaSeq[i] : i \in 1..ArenaStrings} |->
     (CHOOSE i \in 1..ArenaStrings : ArenaSeq[i] = s) - 1]

\* the capacity and the load factor of SpecArena: no growth before the second
\* chunk of the arena
ArenaCapRequests == {2048}

ArenaLoadFactors == {<<3, 4>>}

(* ------------------------- integer arithmetic --------------------------- *)

RECURSIVE Pow2(_)
Pow2(n) == IF n = 0 THEN 1 ELSE 2 * Pow2(n - 1)

\* bitwise and of two naturals
RECURSIVE BitAnd(_, _)
BitAnd(a, b) ==
  IF a = 0 \/ b = 0 THEN 0
  ELSE (IF a % 2 = 1 /\ b % 2 = 1 THEN 1 ELSE 0) + 2 * BitAnd(a \div 2, b \div 2)

\* Go's / on integers truncates toward zero
TruncDiv(a, b) == IF a >= 0 THEN a \div b ELSE -((-a) \div b)

\* x & m for an int32 x (two's complement) and a mask 0 <= m < 2^31: bit 31
\* and above of x are masked out, so x + 2^31 has the same result for x < 0
AndInt32(x, m) == BitAnd(IF x >= 0 THEN x ELSE (x + 2147483647) + 1, m)

\* bits.Len: number of bits needed to represent x
RECURSIVE BitLen(_)
BitLen(x) == IF x = 0 THEN 0 ELSE 1 + BitLen(x \div 2)

\* bits.LeadingZeros(uint(x))
LeadingZeros(x) == WordBits - BitLen(x)

\* int(loadFactor * float64(n)) for n a power of two
Scale(lf, n) == (lf[1] * n) \div lf[2]

(* ------------------------------ the table ------------------------------- *)

EmptyEntry == [hash |-> 0, index |-> 0]

\* make([]entry, n)
MakeEntries(n) == [p \in 0..(n - 1) |-> EmptyEntry]

NumEntries(es) == Cardinality(DOMAIN es)

\* the rounding with LeadingZeros(cap) in place of LeadingZeros(cap - 1)
RoundCapNoDec(cap) ==
  IF cap < MinCap THEN MinCap
  ELSE Pow2(WordBits - LeadingZeros(cap))

\* the capacity New allocates for a requested cap
RoundCap(cap) ==
  IF cap < MinCap THEN MinCap
  ELSE Pow2(WordBits - LeadingZeros(cap - 1))

\* func (i *Intern) Cap() int
Cap(es) == NumEntries(es)

\* func (i *Intern) Len() int
InternLen(strs) == Len(strs)

\* func (i *Intern) Clashes() int
Clashes(cl) == cl

\* func (i *Intern) genhash(val string) uint32
genhash(h, val) == h[val]

\* strings[j][k] of IndexToString: a bounds fault when chunk j does not exist
IndexToString(strs, index) ==
  LET j == TruncDiv(index, ChunkSize)
      k == AndInt32(index, ChunkSize - 1)
  IN IF j < 0 \/ j >= Len(strs)
       THEN [ok |-> FALSE, val |-> ""]
       ELSE [ok |-> TRUE,
             val |-> IF k \in DOMAIN strs[j + 1] THEN strs[j + 1][k] ELSE ""]

\* a resize that stores at the home position without probing
FindFreeNoProbe(es, cursor) == cursor

\* the inner loop of resize: the first empty position from cursor on
RECURSIVE FindFree(_, _)
FindFree(es, cursor) ==
  IF es[cursor].index = 0 THEN cursor
  ELSE FindFree(es, IF cursor + 1 = NumEntries(es) THEN 0 ELSE cursor + 1)

\* the positions from p on that the range loop of resize does not skip
Remaining(oldEntries, p) ==
  {q \in DOMAIN oldEntries : q >= p /\ oldEntries[q].index # 0}

\* a re-insertion that keeps the mask of the old slot array
RECURSIVE ReinsertOldMask(_, _, _)
ReinsertOldMask(oldEntries, p, es) ==
  IF Remaining(oldEntries, p) = {} THEN es
  ELSE LET q == CHOOSE x \in Remaining(oldEntries, p) :
                  \A y \in Remaining(oldEntries, p) : x <= y
           e == oldEntries[q]
           cursor == FindFree(es, BitAnd(e.hash, NumEntries(oldEntries) - 1))
       IN ReinsertOldMask(oldEntries, q + 1, [es EXCEPT ![cursor] = e])

\* the range loop of resize over oldEntries[p..]: the next entry that is not
\* empty is stored at the first empty position from its new home slot on
RECURSIVE Reinsert(_, _, _)
Reinsert(oldEntries, p, es) ==
  IF Remaining(oldEntries, p) = {} THEN es
  ELSE LET q == CHOOSE x \in Remaining(oldEntries, p) :
                  \A y \in Remaining(oldEntries, p) : x <= y
           e == oldEntries[q]
           cursor == FindFree(es, BitAnd(e.hash, NumEntries(es) - 1))
       IN Reinsert(oldEntries, q + 1, [es EXCEPT ![cursor] = e])

\* a resize whose new slot array is built but never stored in i.entries
resizeShadow(es, cnt, thr, lf) ==
  IF cnt < thr
    THEN [entries |-> es, threshold |-> thr, grew |-> FALSE]
    ELSE [entries |-> es, threshold |-> Scale(lf, 2 * NumEntries(es)),
          grew |-> TRUE]

\* a resize that grows by MinCap slots instead of doubling
resizeAdd(es, cnt, thr, lf) ==
  IF cnt < thr
    THEN [entries |-> es, threshold |-> thr, grew |-> FALSE]
    ELSE LET numEntries == NumEntries(es) + MinCap
         IN [entries |-> Reinsert(es, 0, MakeEntries(numEntries)),
             threshold |-> Scale(lf, numEntries),
             grew |-> TRUE]

\* a resize that forgets to set i.threshold
resizeKeepThreshold(es, cnt, thr, lf) ==
  IF cnt < thr
    THEN [entries |-> es, threshold |-> thr, grew |-> FALSE]
    ELSE LET numEntries == 2 * NumEntries(es)
         IN [entries |-> Reinsert(es, 0, MakeEntries(numEntries)),
             threshold |-> thr,
             grew |-> TRUE]

\* a resize that takes the threshold from the old slot array
resizeOldThreshold(es, cnt, thr, lf) ==
  IF cnt < thr
    THEN [entries |-> es, threshold |-> thr, grew |-> FALSE]
    ELSE LET numEntries == 2 * NumEntries(es)
         IN [entries |-> Reinsert(es, 0, MakeEntries(numEntries)),
             threshold |-> Scale(lf, NumEntries(es)),
             grew |-> TRUE]

\* func (i *Intern) resize()
resize(es, cnt, thr, lf) ==
  IF cnt < thr
    THEN [entries |-> es, threshold |-> thr, grew |-> FALSE]
    ELSE LET numEntries == 2 * NumEntries(es)
         IN [entries |-> Reinsert(es, 0, MakeEntries(numEntries)),
             threshold |-> Scale(lf, numEntries),
             grew |-> TRUE]

\* a probe that takes an equal hash for an equal string
RECURSIVE ProbeHashOnly(_, _, _, _, _, _, _)
ProbeHashOnly(es, strs, cursor, start, hashVal, val, cl) ==
  IF es[cursor].index = 0
    THEN [kind |-> "miss", cursor |-> cursor, clashes |-> cl, index |-> 0]
    ELSE LET e == es[cursor]
         IN IF e.hash = hashVal
              THEN [kind |-> "hit", cursor |-> cursor, clashes |-> cl,
                    index |-> e.index - 1]
            ELSE LET next == IF cursor + 1 = NumEntries(es) THEN 0
                                                             ELSE cursor + 1
                 IN IF next = start
                      THEN [kind |-> "out of space!", cursor |-> next,
                            clashes |-> cl + 1, index |-> 0]
                      ELSE ProbeHashOnly(es, strs, next, start, hashVal, val,
                                         cl + 1)

\* a probe that takes the first occupied slot that does not match for the
\* place of the new entry
ProbeStopEarly(es, strs, cursor, start, hashVal, val, cl) ==
  IF es[cursor].index = 0
    THEN [kind |-> "miss", cursor |-> cursor, clashes |-> cl, index |-> 0]
    ELSE LET e == es[cursor]
             s == IndexToString(strs, e.index - 1)
         IN IF e.hash = hashVal /\ s.ok /\ s.val = val
              THEN [kind |-> "hit", cursor |-> cursor, clashes |-> cl,
                    index |-> e.index - 1]
              ELSE [kind |-> "miss", cursor |-> cursor, clashes |-> cl + 1,
                    index |-> 0]

\* a probe without i.clashes++
RECURSIVE ProbeNoCount(_, _, _, _, _, _, _)
ProbeNoCount(es, strs, cursor, start, hashVal, val, cl) ==
  IF es[cursor].index = 0
    THEN [kind |-> "miss", cursor |-> cursor, clashes |-> cl, index |-> 0]
    ELSE LET e == es[cursor]
             s == IndexToString(strs, e.index - 1)
         IN IF e.hash = hashVal /\ ~s.ok
              THEN [kind |-> "index out of range", cursor |-> cursor,
                    clashes |-> cl, index |-> 0]
            ELSE IF e.hash = hashVal /\ s.val = val
              THEN [kind |-> "hit", cursor |-> cursor, clashes |-> cl,
                    index |-> e.index - 1]
            ELSE LET next == IF cursor + 1 = NumEntries(es) THEN 0
                                                             ELSE cursor + 1
                 IN IF next = start
                      THEN [kind |-> "out of space!", cursor |-> next,
                            clashes |-> cl, index |-> 0]
                      ELSE ProbeNoCount(es, strs, next, start, hashVal, val, cl)

\* the probe loop of StringToIndex: the loop test, the comparison, the clash
\* count and the wrap-around of one round, then the next round
RECURSIVE Probe(_, _, _, _, _, _, _)
Probe(es, strs, cursor, start, hashVal, val, cl) ==
  IF es[cursor].index = 0
    THEN [kind |-> "miss", cursor |-> cursor, clashes |-> cl, index |-> 0]
    ELSE LET e == es[cursor]
             s == IndexToString(strs, e.index - 1)
         IN IF e.hash = hashVal /\ ~s.ok
              THEN [kind |-> "index out of range", cursor |-> cursor,
                    clashes |-> cl, index |-> 0]
            ELSE IF e.hash = hashVal /\ s.val = val
              THEN [kind |-> "hit", cursor |-> cursor, clashes |-> cl,
                    index |-> e.index - 1]
            ELSE LET next == IF cursor + 1 = NumEntries(es) THEN 0
                                                             ELSE cursor + 1
                 IN IF next = start
                      THEN [kind |-> "out of space!", cursor |-> next,
                            clashes |-> cl + 1, index |-> 0]
                      ELSE Probe(es, strs, next, start, hashVal, val, cl + 1)

\* an entry written without its hash
NewEntryNoHash(index, hashVal) == [index |-> index + 1, hash |-> 0]

\* entry{index: index + 1, hash: hashVal}
NewEntry(index, hashVal) == [index |-> index + 1, hash |-> hashVal]

\* a minting that forgets i.count++
MintNoInc(cnt) == [index |-> cnt, count |-> cnt]

\* index := IndexType(i.count); i.count++
Mint(cnt) == [index |-> cnt, count |-> cnt + 1]

\* an arena append that writes one offset too far
Append1Off(strs, index, val) ==
  LET j == TruncDiv(index, ChunkSize)
      k == AndInt32(index, ChunkSize - 1)
      grown1 == IF k = 0 THEN Append(strs, <<>>) ELSE strs
  IN IF j >= Len(grown1)
       THEN [ok |-> FALSE, strings |-> grown1]
       ELSE [ok |-> TRUE,
             strings |-> [grown1 EXCEPT ![j + 1] =
                            [o \in (DOMAIN grown1[j + 1]) \cup {k + 1} |->
                               IF o = k + 1 THEN val ELSE grown1[j + 1][o]]]]

\* an arena append that allocates a chunk for every string
Append1EveryChunk(strs, index, val) ==
  LET j == TruncDiv(index, ChunkSize)
      k == AndInt32(index, ChunkSize - 1)
      grown1 == Append(strs, <<>>)
  IN IF j >= Len(grown1)
       THEN [ok |-> FALSE, strings |-> grown1]
       ELSE [ok |-> TRUE,
             strings |-> [grown1 EXCEPT ![j + 1] =
                            [o \in (DOMAIN grown1[j + 1]) \cup {k} |->
                               IF o = k THEN val ELSE grown1[j + 1][o]]]]

\* the arena append of StringToIndex: strings[j][k] = val for the new index
Append1(strs, index, val) ==
  LET j == TruncDiv(index, ChunkSize)
      k == AndInt32(index, ChunkSize - 1)
      grown1 == IF k = 0 THEN Append(strs, <<>>) ELSE strs
  IN IF j >= Len(grown1)
       THEN [ok |-> FALSE, strings |-> grown1]
       ELSE [ok |-> TRUE,
             strings |-> [grown1 EXCEPT ![j + 1] =
                            [o \in (DOMAIN grown1[j + 1]) \cup {k} |->
                               IF o = k THEN val ELSE grown1[j + 1][o]]]]

(* -------------------- the reference implementation ---------------------- *)

\* func (c *compare) StringToIndex(val string): the new map, slice and result
compareStringToIndex(m, s, val) ==
  IF val \in DOMAIN m
    THEN [m |-> m, s |-> s, ret |-> m[val] - 1]
    ELSE LET s1 == Append(s, val)
             index == Len(s1)
         IN [m |-> [v \in (DOMAIN m) \cup {val} |->
                      IF v = val THEN index ELSE m[v]],
             s |-> s1, ret |-> index - 1]

(* ------------------------------ states ---------------------------------- *)

\* the goroutines that share one table in SpecConc
Threads == {1, 2}

\* a goroutine that is in no call
IdleThread ==
  [pc |-> "idle", val |-> "", hashVal |-> 0, cursor |-> 0, index |-> 0,
   fresh |-> FALSE, stale |-> FALSE, es |-> <<>>]

\* one caller: no goroutine is in a call and no lock is used
Sequential ==
  [locked |-> FALSE, owner |-> 0, t |-> [u \in Threads |-> IdleThread]]

\* func New(cap int, loadFactor float64) *Intern, with newCompare next to it
New(cap, lf, h) ==
  /\ entries = MakeEntries(RoundCap(cap))
  /\ strings = <<>>
  /\ count = 0
  /\ threshold = Scale(lf, RoundCap(cap))
  /\ clashes = 0
  /\ loadFactor = lf
  /\ hash = h
  /\ fault = "none"
  /\ op = [name |-> "New", val |-> "", index |-> cap, fresh |-> FALSE]
  /\ newCap = cap
  /\ c_m = <<>>
  /\ c_s = <<>>
  /\ c_ret = 0
  /\ calls = 0
  /\ rets = {}
  /\ order = <<>>
  /\ grown = 0

Init ==
  \E cap \in CapRequests, lf \in LoadFactors, h \in HashFns :
    New(cap, lf, h) /\ conc = Sequential

\* func (i *Intern) StringToIndex(val string) IndexType, run side by side
\* with compare.StringToIndex on the same val
StringToIndex(val) ==
  /\ fault = "none"
  /\ LET r == resize(entries, count, threshold, loadFactor)
         hashVal == genhash(hash, val)
         cursor == BitAnd(hashVal, NumEntries(r.entries) - 1)
         pr == Probe(r.entries, strings, cursor, cursor, hashVal, val, clashes)
         mt == Mint(count)
         index == mt.index
         ap == Append1(strings, index, val)
         c == compareStringToIndex(c_m, c_s, val)
         seen == {order[i] : i \in 1..Len(order)}
     IN /\ threshold' = r.threshold
        /\ grown' = IF r.grew THEN grown + 1 ELSE grown
        /\ clashes' = pr.clashes
        /\ calls' = calls + 1
        /\ order' = IF val \in seen THEN order ELSE Append(order, val)
        /\ c_m' = c.m
        /\ c_s' = c.s
        /\ c_ret' = c.ret
        /\ CASE pr.kind = "hit" ->
                  /\ entries' = r.entries
                  /\ op' = [name |-> "StringToIndex", val |-> val,
                            index |-> pr.index, fresh |-> val \notin seen]
                  /\ rets' = rets \cup {<<val, pr.index>>}
                  /\ UNCHANGED <<strings, count, fault>>
             [] pr.kind = "miss" /\ ap.ok ->
                  /\ count' = mt.count
                  /\ strings' = ap.strings
                  /\ entries' = [r.entries EXCEPT ![pr.cursor] =
                                   NewEntry(index, hashVal)]
                  /\ op' = [name |-> "StringToIndex", val |-> val,
                            index |-> index, fresh |-> val \notin seen]
                  /\ rets' = rets \cup {<<val, index>>}
                  /\ UNCHANGED fault
             [] pr.kind = "miss" /\ ~ap.ok ->
                  /\ count' = mt.count
                  /\ strings' = ap.strings
                  /\ entries' = r.entries
                  /\ fault' = "index out of range"
                  /\ op' = [name |-> "StringToIndex", val |-> val,
                            index |-> -1, fresh |-> val \notin seen]
                  /\ UNCHANGED rets
             [] OTHER ->
                  /\ entries' = r.entries
                  /\ fault' = pr.kind
                  /\ op' = [name |-> "StringToIndex", val |-> val,
                            index |-> -1, fresh |-> val \notin seen]
                  /\ UNCHANGED <<strings, count, rets>>
  /\ UNCHANGED <<loadFactor, hash, newCap, conc>>

\* a caller's in.IndexToString(index)
IndexToStringCall(index) ==
  /\ fault = "none"
  /\ LET s == IndexToString(strings, index)
     IN /\ op' = [name |-> "IndexToString", val |-> s.val, index |-> index,
                  fresh |-> FALSE]
        /\ fault' = IF s.ok THEN "none" ELSE "index out of range"
  /\ UNCHANGED <<entries, strings, count, threshold, clashes, loadFactor, hash,
                 newCap, c_m, c_s, c_ret, calls, rets, order, grown, conc>>

\* a caller's in.Len()
LenCall ==
  /\ fault = "none"
  /\ op' = [name |-> "Len", val |-> "", index |-> InternLen(strings),
            fresh |-> FALSE]
  /\ UNCHANGED <<entries, strings, count, threshold, clashes, loadFactor, hash,
                 fault, newCap, c_m, c_s, c_ret, calls, rets, order, grown,
                 conc>>

\* a caller's in.Cap()
CapCall ==
  /\ fault = "none"
  /\ op' = [name |-> "Cap", val |-> "", index |-> Cap(entries),
            fresh |-> FALSE]
  /\ UNCHANGED <<entries, strings, count, threshold, clashes, loadFactor, hash,
                 fault, newCap, c_m, c_s, c_ret, calls, rets, order, grown,
                 conc>>

\* the identifiers a caller may pass to IndexToString: the first and the last
\* issued one, the first unissued one, -1 and the chunk boundaries
IndexArgs == {-ChunkSize, -1, 0, count - 1, count, ChunkSize}

Next ==
  \/ calls < MaxCalls /\ \E val \in Strings : StringToIndex(val)
  \/ \E index \in IndexArgs : IndexToStringCall(index)
  \/ LenCall
  \/ CapCall

Spec == Init /\ [][Next]_vars

(* --------- a table filled in the order of TestSame, with repeats --------- *)

InitFill ==
  \E cap \in CapRequests, lf \in FillLoadFactors, kind \in FillHashKinds :
    New(cap, lf, FillHash(kind)) /\ conc = Sequential

\* the next string of FillSeq that was not passed yet, and the first string
\* again
FillArgs ==
  (IF Len(order) < FillStrings THEN {FillSeq[Len(order) + 1]} ELSE {})
    \cup (IF Len(order) > 0 THEN {order[1]} ELSE {})

NextFill ==
  calls < MaxFillCalls /\ \E val \in FillArgs : StringToIndex(val)

SpecFill == InitFill /\ [][NextFill]_vars

(* ---------------- construction with any requested capacity --------------- *)

InitCap ==
  \E cap \in 0..MaxCapReq, lf \in LoadFactors :
    New(cap, lf, [s \in Strings |-> 15]) /\ conc = Sequential

NextCap ==
  \/ CapCall
  \/ LenCall

SpecCap == InitCap /\ [][NextCap]_vars

(* ------------- more than one chunk of strings, in TestSame order ---------- *)

InitArena ==
  \E cap \in ArenaCapRequests, lf \in ArenaLoadFactors :
    New(cap, lf, ArenaHash) /\ conc = Sequential

\* the next string of ArenaSeq
ArenaArgs ==
  IF Len(order) < ArenaStrings THEN {ArenaSeq[Len(order) + 1]} ELSE {}

NextArena ==
  \/ \E val \in ArenaArgs : StringToIndex(val)
  \/ LenCall

SpecArena == InitArena /\ [][NextArena]_vars

(* ---- two goroutines in StringToIndex on one table, with or without lock -- *)

\* The steps of a call are the resize check with the load of i.entries, the
\* probe loop, the arena append with the count increment, and the slot write;
\* each step is atomic and memory is sequentially consistent.  A goroutine
\* whose local slice `entries` was replaced by the resize of the other one is
\* stale: it is the only holder of the old array, kept in its es.

\* the table is shared by the goroutines, which serialise their calls by one
\* external lock or use none
Shared(locked) == [Sequential EXCEPT !.locked = locked]

\* the strings the goroutines pass, and their hash functions
ConcStrings == {"", "0"}

ConcHashFns == {h \in [ConcStrings -> HashVals] : h[""] <= h["0"]}

InitConc ==
  \E cap \in CapRequests, lf \in LoadFactors, h \in ConcHashFns,
     locked \in BOOLEAN :
    New(cap, lf, h) /\ conc = Shared(locked)

\* the slot array a goroutine reads and writes through its local `entries`
LocalEntries(t) == IF conc.t[t].stale THEN conc.t[t].es ELSE entries

\* the end of a call: the goroutine is idle again and gives the lock back
Return(c, t) ==
  [c EXCEPT !.t[t] = IdleThread,
            !.owner = IF c.owner = t THEN 0 ELSE c.owner]

\* goroutine t calls StringToIndex(val), after taking the lock if one is used
ConcCall(t, val) ==
  /\ fault = "none"
  /\ conc.t[t].pc = "idle"
  /\ conc.locked => conc.owner = 0
  /\ LET seen == {order[i] : i \in 1..Len(order)}
     IN /\ conc' = [conc EXCEPT !.t[t] = [IdleThread EXCEPT
                                            !.pc = "resize", !.val = val,
                                            !.fresh = val \notin seen],
                                !.owner = IF conc.locked THEN t ELSE 0]
        /\ order' = IF val \in seen THEN order ELSE Append(order, val)
  /\ calls' = calls + 1
  /\ UNCHANGED <<entries, strings, count, threshold, clashes, loadFactor, hash,
                 fault, op, newCap, c_m, c_s, c_ret, rets, grown>>

\* i.resize(); hashVal := i.genhash(val); entries := i.entries; cursor := ...
ConcResize(t) ==
  /\ fault = "none"
  /\ conc.t[t].pc = "resize"
  /\ LET r == resize(entries, count, threshold, loadFactor)
         hashVal == genhash(hash, conc.t[t].val)
     IN /\ entries' = r.entries
        /\ threshold' = r.threshold
        /\ grown' = IF r.grew THEN grown + 1 ELSE grown
        /\ conc' = [conc EXCEPT !.t =
             [u \in Threads |->
                IF u = t
                  THEN [conc.t[t] EXCEPT
                          !.pc = "probe", !.hashVal = hashVal,
                          !.cursor = BitAnd(hashVal, NumEntries(r.entries) - 1),
                          !.stale = FALSE, !.es = <<>>]
                ELSE IF r.grew /\ ~conc.t[u].stale
                        /\ conc.t[u].pc \in {"probe", "append", "write"}
                  THEN [conc.t[u] EXCEPT !.stale = TRUE, !.es = entries]
                ELSE conc.t[u]]]
  /\ UNCHANGED <<strings, count, clashes, loadFactor, hash, fault, op, newCap,
                 c_m, c_s, c_ret, calls, rets, order>>

\* the probe loop, which ends the call when it finds val
ConcProbe(t) ==
  /\ fault = "none"
  /\ conc.t[t].pc = "probe"
  /\ LET me == conc.t[t]
         pr == Probe(LocalEntries(t), strings, me.cursor, me.cursor,
                     me.hashVal, me.val, clashes)
     IN /\ clashes' = pr.clashes
        /\ CASE pr.kind = "hit" ->
                  /\ conc' = Return(conc, t)
                  /\ op' = [name |-> "StringToIndex", val |-> me.val,
                            index |-> pr.index, fresh |-> me.fresh]
                  /\ rets' = rets \cup {<<me.val, pr.index>>}
                  /\ UNCHANGED fault
             [] pr.kind = "miss" ->
                  /\ conc' = [conc EXCEPT !.t[t].pc = "append",
                                          !.t[t].cursor = pr.cursor]
                  /\ UNCHANGED <<op, rets, fault>>
             [] OTHER ->
                  /\ fault' = pr.kind
                  /\ UNCHANGED <<conc, op, rets>>
  /\ UNCHANGED <<entries, strings, count, threshold, loadFactor, hash, newCap,
                 c_m, c_s, c_ret, calls, order, grown>>

\* index := IndexType(i.count); i.count++; ...; i.strings[j][k] = val
ConcAppend(t) ==
  /\ fault = "none"
  /\ conc.t[t].pc = "append"
  /\ LET mt == Mint(count)
         ap == Append1(strings, mt.index, conc.t[t].val)
     IN /\ count' = mt.count
        /\ strings' = ap.strings
        /\ fault' = IF ap.ok THEN "none" ELSE "index out of range"
        /\ conc' = [conc EXCEPT !.t[t].pc = "write", !.t[t].index = mt.index]
  /\ UNCHANGED <<entries, threshold, clashes, loadFactor, hash, op, newCap,
                 c_m, c_s, c_ret, calls, rets, order, grown>>

\* entries[cursor] = entry{index: index + 1, hash: hashVal}; return index
ConcWrite(t) ==
  /\ fault = "none"
  /\ conc.t[t].pc = "write"
  /\ LET me == conc.t[t]
     IN /\ entries' = IF me.stale THEN entries
                      ELSE [entries EXCEPT ![me.cursor] =
                              NewEntry(me.index, me.hashVal)]
        /\ conc' = Return(conc, t)
        /\ op' = [name |-> "StringToIndex", val |-> me.val,
                  index |-> me.index, fresh |-> me.fresh]
        /\ rets' = rets \cup {<<me.val, me.index>>}
  /\ UNCHANGED <<strings, count, threshold, clashes, loadFactor, hash, fault,
                 newCap, c_m, c_s, c_ret, calls, order, grown>>

NextConc ==
  \E t \in Threads :
    \/ calls < MaxConcCalls /\ \E val \in ConcStrings : ConcCall(t, val)
    \/ ConcResize(t)
    \/ ConcProbe(t)
    \/ ConcAppend(t)
    \/ ConcWrite(t)

SpecConc == InitConc /\ [][NextConc]_vars

(* ------------------------------ properties ------------------------------- *)

\* the home slot of a hash in a slot array of n slots
Home(h, n) == BitAnd(h, n - 1)

\* the multiset of the (hash, index) pairs of the occupied slots
Occupied(es) ==
  LET occ == {p \in DOMAIN es : es[p].index # 0}
  IN [e \in {es[p] : p \in occ} |-> Cardinality({p \in occ : es[p] = e})]

IsPow2(n) == \E k \in 0..30 : n = Pow2(k)

\* C1: a StringToIndex call with a string that was not passed before returns
\* the number of distinct strings passed before it (0 for the first call), and
\* it does not fault.
C1_Dense ==
  (op.name = "StringToIndex" /\ op.fresh)
    => (fault = "none" /\ op.index = Len(order) - 1)

\* a third distinct string received identifier 2 after two growth events
C1_Witness ==
  /\ op.name = "StringToIndex" /\ op.fresh
  /\ op.index = 2 /\ Len(order) = 3 /\ grown >= 2

\* C2: all the calls of StringToIndex with one string have returned one
\* identifier, whatever calls and growth events came between them.
C2_Deterministic ==
  \A r1, r2 \in rets : r1[1] = r2[1] => r1[2] = r2[2]

\* the first string is passed again after three growth events, two of them
\* after its first call, and receives identifier 0 again
C2_Witness ==
  /\ op.name = "StringToIndex" /\ ~op.fresh
  /\ op.val = order[1] /\ op.index = 0
  /\ grown >= 3 /\ Len(order) = 3

\* C3: for every string that was passed to StringToIndex, IndexToString of the
\* identifier it received is that string, in every later state.
C3_RoundTrip ==
  \A r \in rets :
    LET s == IndexToString(strings, r[2]) IN s.ok /\ s.val = r[1]

\* a caller reads identifier 0 back after later insertions and growth events
C3_Witness ==
  /\ op.name = "IndexToString" /\ op.index = 0 /\ fault = "none"
  /\ op.val = order[1] /\ op.val # ""
  /\ count = 3 /\ grown >= 2

\* C4: one identifier was never returned for two distinct strings.
C4_NoAliasing ==
  \A r1, r2 \in rets : r1[2] = r2[2] => r1[1] = r2[1]

\* three strings were interned, two with the same hash and a third with
\* another hash and the same home slot
C4_Witness ==
  \E r1, r2, r3 \in rets :
    /\ r1[1] # r2[1] /\ hash[r1[1]] = hash[r2[1]]
    /\ hash[r3[1]] # hash[r1[1]]
    /\ Home(hash[r3[1]], Cap(entries)) = Home(hash[r1[1]], Cap(entries))

\* C5: Len() returns the number of distinct strings passed to StringToIndex.
C5_LenIsCount ==
  op.name = "Len" => op.index = Len(order)

\* C6: the resize at the start of the next call keeps the multiset of the
\* (hash, index) pairs of the occupied slots, and the probe of the resized
\* slot array finds every string at the identifier it was issued.
C6_ResizeKeeps ==
  LET r == resize(entries, count, threshold, loadFactor)
  IN /\ Occupied(r.entries) = Occupied(entries)
     /\ \A x \in rets :
          LET h == genhash(hash, x[1])
              c == Home(h, NumEntries(r.entries))
              pr == Probe(r.entries, strings, c, c, h, x[1], 0)
          IN pr.kind = "hit" /\ pr.index = x[2]

\* a table that grew twice is about to grow again, with two entries of one
\* hash and a third entry to re-insert
C6_Witness ==
  /\ fault = "none" /\ grown >= 2 /\ count >= threshold /\ count = 3
  /\ \E p, q \in DOMAIN entries :
       /\ p # q /\ entries[p].index # 0 /\ entries[q].index # 0
       /\ entries[p].hash = entries[q].hash

\* C7: Cap() of a new table is 16 for a requested capacity of at most 16 and
\* otherwise the smallest power of two that is at least the request.
C7_CapRounding ==
  op.name = "Cap" =>
    IF newCap <= 16 THEN op.index = 16
    ELSE /\ IsPow2(op.index)
         /\ op.index >= newCap
         /\ op.index \div 2 < newCap

\* New(65, lf).Cap() returned 128
C7_Witness ==
  op.name = "Cap" /\ newCap = 65 /\ op.index = 128

\* C8: IndexToString with an identifier that was never issued ends in a
\* bounds fault.
C8_UnissuedFaults ==
  (op.name = "IndexToString" /\ (op.index < 0 \/ op.index >= count))
    => fault = "index out of range"

\* C9: StringToIndex never ends in "out of space!", and the slot array has an
\* empty slot in every state, so also while a call probes it.
C9_NoOutOfSpace ==
  /\ fault # "out of space!"
  /\ \E p \in DOMAIN entries : entries[p].index = 0

\* seventeen strings with one hash were interned with load factor 15/16
C9_Witness ==
  /\ op.name = "StringToIndex" /\ fault = "none"
  /\ count = 17 /\ loadFactor = <<15, 16>>
  /\ \A s \in DOMAIN hash : hash[s] = 15

\* C10: every StringToIndex call returns what compare.StringToIndex returns
\* for the same string.
C10_SameAsCompare ==
  op.name = "StringToIndex" => (fault = "none" /\ op.index = c_ret)

\* the two implementations agree on a repeated string that clashed on the way
C10_Witness ==
  /\ op.name = "StringToIndex" /\ ~op.fresh /\ op.index = c_ret
  /\ op.index = 2 /\ clashes >= 2 /\ grown >= 1

\* C11: the slot array length is a power of two and at least 16 in every state.
C11_CapPow2 ==
  IsPow2(Cap(entries)) /\ Cap(entries) >= 16

\* the slot array grew three times, from 16 to 128 slots
C11_Witness ==
  grown = 3 /\ Cap(entries) = 128 /\ count = 3

\* what one step does to the capacity and the threshold
C12_Step ==
  /\ Cap(entries') >= Cap(entries)
  /\ calls' # calls =>
       Cap(entries') = IF count < threshold THEN Cap(entries)
                                            ELSE 2 * Cap(entries)
  /\ calls' = calls => Cap(entries') = Cap(entries)
  /\ threshold' = Scale(loadFactor', Cap(entries'))

\* C12: a StringToIndex call leaves Cap() as it is when count < threshold at
\* its start and doubles it once otherwise, no other step changes it, and the
\* threshold is floor(loadFactor * Cap()) from construction on.
C12_Growth ==
  (threshold = Scale(loadFactor, Cap(entries))) /\ [][C12_Step]_vars

\* a call with an interned string doubled the slot array to 128 slots
C12_Witness ==
  /\ op.name = "StringToIndex" /\ ~op.fresh /\ fault = "none"
  /\ count = 3 /\ grown = 3 /\ Cap(entries) = 128 /\ threshold = 6

\* C13: every occupied slot holds the hash of the arena string of its
\* identifier, and its identifier was issued.
C13_SlotHash ==
  \A p \in DOMAIN entries :
    entries[p].index # 0 =>
      /\ 0 <= entries[p].index - 1 /\ entries[p].index - 1 < count
      /\ LET s == IndexToString(strings, entries[p].index - 1)
         IN s.ok /\ entries[p].hash = genhash(hash, s.val)

\* three strings with three different hashes are stored after two growths
C13_Witness ==
  /\ count = 3 /\ grown >= 2
  /\ Cardinality({entries[p].hash :
                    p \in {q \in DOMAIN entries : entries[q].index # 0}}) = 3

\* C14: the occupied slots are as many as the stored strings, and every
\* issued identifier is held by exactly one slot.
C14_OneSlotPerId ==
  /\ Cardinality({p \in DOMAIN entries : entries[p].index # 0}) = count
  /\ \A id \in 0..(count - 1) :
       Cardinality({p \in DOMAIN entries : entries[p].index = id + 1}) = 1

\* three strings of one hash are stored after a growth
C14_Witness ==
  /\ count = 3 /\ grown >= 1 /\ fault = "none"
  /\ \A s \in DOMAIN hash : hash[s] = 15

\* the positions of the cyclic path from h to p in n slots
Path(h, p, n) ==
  IF h <= p THEN h..p ELSE (h..(n - 1)) \cup (0..p)

\* C15: every slot on the cyclic path from the home slot of an occupied slot's
\* hash to that slot is occupied, and the probe finds every stored string at
\* its identifier.
C15_ProbeChain ==
  /\ \A p \in DOMAIN entries :
       entries[p].index # 0 =>
         \A q \in Path(Home(entries[p].hash, Cap(entries)), p, Cap(entries)) :
           entries[q].index # 0
  /\ \A id \in 0..(count - 1) :
       LET s == IndexToString(strings, id).val
           h == genhash(hash, s)
           c == Home(h, Cap(entries))
           pr == Probe(entries, strings, c, c, h, s, 0)
       IN pr.kind = "hit" /\ pr.index = id

\* after a growth an entry sits before its home slot, past the wrap-around
C15_Witness ==
  /\ grown >= 1 /\ fault = "none"
  /\ \E p \in DOMAIN entries :
       /\ entries[p].index # 0
       /\ p < Home(entries[p].hash, Cap(entries))

\* C16: when floor(loadFactor * initial capacity) >= 1, the stored strings are
\* at most threshold in every state, and the resize of the next call leaves
\* count < threshold.
C16_LoadBound ==
  Scale(loadFactor, RoundCap(newCap)) >= 1 =>
    /\ count <= threshold
    /\ count < resize(entries, count, threshold, loadFactor).threshold

\* a table with load factor 1/2 was at its threshold of 16 strings, doubled
\* to 64 slots and stored the seventeenth string
C16_Witness ==
  /\ loadFactor = <<1, 2>> /\ grown = 2 /\ count = 17 /\ threshold = 32
  /\ op.name = "StringToIndex" /\ op.fresh /\ fault = "none"

\* the slot that holds identifier id
SlotOf(es, id) == CHOOSE p \in DOMAIN es : es[p].index = id + 1

\* the number of slots from h up to p, p not counted, in n slots
CyclicDist(h, p, n) == IF h <= p THEN p - h ELSE p + n - h

\* what one step does to the clash count
C17_Step ==
  /\ clashes' >= clashes
  /\ calls' = calls => clashes' = clashes
  /\ (calls' # calls /\ fault' = "none") =>
       clashes' - clashes =
         CyclicDist(Home(genhash(hash, op'.val), Cap(entries')),
                    SlotOf(entries', op'.index), Cap(entries'))

\* C17: the clash count never decreases, a StringToIndex call raises it by the
\* number of slots between the home slot of its string and the slot that
\* holds the string, and no other step changes it.
C17_Clashes == [][C17_Step]_vars

\* a call with an interned string two slots past its home slot, after a growth
C17_Witness ==
  /\ op.name = "StringToIndex" /\ ~op.fresh /\ fault = "none" /\ grown >= 1
  /\ CyclicDist(Home(genhash(hash, op.val), Cap(entries)),
                SlotOf(entries, op.index), Cap(entries)) = 2
  /\ clashes >= 5

\* the set of the (hash, index) pairs of the occupied slots
EntrySet(es) == {es[p] : p \in {q \in DOMAIN es : es[q].index # 0}}

\* what a call with an interned string and a call of IndexToString leave alone
C19_Step ==
  /\ (calls' # calls /\ ~op'.fresh) =>
       /\ count' = count
       /\ strings' = strings
       /\ EntrySet(entries') = EntrySet(entries)
  /\ (calls' = calls /\ op'.name = "IndexToString") =>
       UNCHANGED <<entries, strings, count, threshold, clashes, loadFactor,
                   hash>>

\* C19: a StringToIndex call with an interned string changes neither the
\* number of stored strings nor the arena nor the set of (hash, index)
\* entries, and IndexToString changes nothing of the table.
C19_HitFrame == [][C19_Step]_vars

\* a call with an interned string re-laid three entries out in 128 slots
C19_Witness ==
  /\ op.name = "StringToIndex" /\ ~op.fresh /\ fault = "none"
  /\ count = 3 /\ Cap(entries) = 128
  /\ \E p \in DOMAIN entries : p >= 64 /\ entries[p].index # 0

\* the chunks of the arena and what they hold
C18_Layout ==
  /\ Len(strings) = (count + ChunkSize - 1) \div ChunkSize
  /\ \A i \in 0..(count - 1) :
       LET chunk == strings[(i \div ChunkSize) + 1]
       IN /\ (i % ChunkSize) \in DOMAIN chunk
          /\ chunk[i % ChunkSize] = order[i + 1]
  /\ \A j \in 1..Len(strings) :
       \A k \in DOMAIN strings[j] : (j - 1) * ChunkSize + k < count

\* what one step does to the arena
C18_Step ==
  /\ Len(strings') \in {Len(strings), Len(strings) + 1}
  /\ (Len(strings') = Len(strings) + 1)
       <=> (count' = count + 1 /\ count % ChunkSize = 0)
  /\ \A j \in 1..Len(strings) :
       \A k \in DOMAIN strings[j] :
         k \in DOMAIN strings'[j] /\ strings'[j][k] = strings[j][k]

\* C18: the arena holds ceil(count/1024) chunks, the i-th distinct string is
\* at chunk i/1024, offset i mod 1024 and nothing is written past count; a
\* chunk is appended exactly by the step that mints a multiple of 1024, and a
\* written position keeps its string.
C18_Arena == []C18_Layout /\ [][C18_Step]_vars

\* the string of identifier 1024 is the first of the second chunk
C18_Witness ==
  /\ count = 1025 /\ Len(strings) = 2 /\ fault = "none"
  /\ strings[1][1023] = "1023" /\ strings[2][0] = "1024"

\* two strings with one identifier, one string with two identifiers, or an
\* identifier that was returned and is in no slot of the slot array
Broken ==
  \/ \E r1, r2 \in rets : r1[1] # r2[1] /\ r1[2] = r2[2]
  \/ \E r1, r2 \in rets : r1[1] = r2[1] /\ r1[2] # r2[2]
  \/ \E r \in rets : \A p \in DOMAIN entries : entries[p].index # r[2] + 1

\* C20: when the goroutines serialise their calls by one lock, no state is
\* reached in which uniqueness is broken or a stored entry is lost.
C20_LockedSafe ==
  conc.locked => ~Broken

\* without a lock, the two goroutines interned one string at two identifiers
\* and both calls have returned
C20_Witness ==
  /\ ~conc.locked /\ fault = "none"
  /\ \A t \in Threads : conc.t[t].pc = "idle"
  /\ \E r1, r2 \in rets : r1[1] = r2[1] /\ r1[2] # r2[2]

====
